---- MODULE Spec2Model ----
(***************************************************************************)
(* Half-sib phasing (hsphase_favier.py): PhaseData aggregates per-offspring *)
(* phase vectors into counts per pair of informative markers; PhaseSolver   *)
(* turns those counts into binary cost tables for a WCSP solver.            *)
(*                                                                          *)
(* Python indices are kept: vectors are functions over 0..len-1, a count    *)
(* vector Nvec is a function over 0..1, a cost list is a function over 0..3.*)
(* Phase values are the strings "0", "1" and "*".                           *)
(***************************************************************************)
EXTENDS Integers, Sequences, FiniteSets, TLC

VARIABLES
    rawphase, info_pairs, info_mk,   \* PhaseData attributes
    pending, cur, mypairs, pc,       \* position inside PhaseData.__init__
    mk, pairs, recf, L, constraints, \* PhaseSolver attributes
    order,                           \* iteration order of the dict self.pairs
    calls, outcome, phase, spc       \* calls made, last result, solve() result

aggvars == <<rawphase, info_pairs, info_mk, pending, cur, mypairs, pc>>
solvars == <<mk, pairs, recf, L, constraints, order, calls, outcome, phase, spc>>
vars == <<aggvars, solvars>>

(* ---------- bounds ---------- *)
MaxOffspring == 2
NumMarkers == 3
MaxPairs == 2
MaxCount == 1
MaxCalls == 2

(* ---------- inputs ---------- *)
Values == {"0", "1", "*"}

OffspringNames == <<"T1", "T2", "T3", "T4", "T5">>

Vec7(a, b, c, d, e, f, g) ==
    [i \in 0..6 |-> <<a, b, c, d, e, f, g>>[i + 1]]

test_phase ==
    [k \in {"T1", "T2", "T3", "T4"} |->
        CASE k = "T1" -> Vec7("1", "*", "*", "0", "1", "*", "1")
          [] k = "T2" -> Vec7("*", "*", "*", "0", "1", "*", "0")
          [] k = "T3" -> Vec7("0", "*", "*", "*", "0", "*", "0")
          [] k = "T4" -> Vec7("*", "*", "*", "*", "*", "*", "*")]

RECURSIVE VecCode(_, _)
VecCode(v, i) ==
    IF i \notin DOMAIN v THEN 0
    ELSE (CASE v[i] = "0" -> 0 [] v[i] = "1" -> 1 [] OTHER -> 2) + 3 * VecCode(v, i + 1)

\* Offspring ids never reach info_pairs or info_mk and the dict is iterated in
\* any order, so one map per multiset of vectors is drawn.
SmallInputs ==
    {m \in [{OffspringNames[n] : n \in 1..MaxOffspring} -> [0..(NumMarkers - 1) -> Values]] :
        \A n \in 1..(MaxOffspring - 1) :
            VecCode(m[OffspringNames[n]], 0) <= VecCode(m[OffspringNames[n + 1]], 0)}

(* ---------- PhaseData.__init__ ---------- *)
RECURSIVE InfoFrom(_, _)
InfoFrom(v, i) ==
    IF i \notin DOMAIN v THEN <<>>
    ELSE (IF v[i] # "*" THEN <<i>> ELSE <<>>) \o InfoFrom(v, i + 1)

infomk(v) == InfoFrom(v, 0)

zip(a, b) ==
    [n \in 1..(IF Len(a) < Len(b) THEN Len(a) ELSE Len(b)) |-> <<a[n], b[n]>>]

\* mutant: the two slices swapped
PairsOfSwapped(im) == zip(SubSeq(im, 2, Len(im)), SubSeq(im, 1, Len(im) - 1))

PairsOf(im) == zip(SubSeq(im, 1, Len(im) - 1), SubSeq(im, 2, Len(im)))

npair(v, p) == IF v[p[1]] = v[p[2]] THEN 1 ELSE 0

Nvec0 == [s \in 0..1 |-> 0]

\* mutant: the increment is skipped when the key is created
AddPairDropFirst(ip, v, p) ==
    IF p \in DOMAIN ip
    THEN [ip EXCEPT ![p] = [@ EXCEPT ![1 - npair(v, p)] = @ + 1]]
    ELSE (p :> Nvec0) @@ ip

\* mutant: Nvec[npair] is incremented instead of Nvec[1-npair]
AddPairSlotSwapped(ip, v, p) ==
    LET ip1 == IF p \in DOMAIN ip THEN ip ELSE (p :> Nvec0) @@ ip
    IN  [ip1 EXCEPT ![p] = [@ EXCEPT ![npair(v, p)] = @ + 1]]

\* mutant: the vector is reset on every visit instead of on first use only
AddPairOverwrite(ip, v, p) ==
    LET ip1 == (p :> Nvec0) @@ [k \in DOMAIN ip \ {p} |-> ip[k]]
    IN  [ip1 EXCEPT ![p] = [@ EXCEPT ![1 - npair(v, p)] = @ + 1]]

AddPair(ip, v, p) ==
    LET ip1 == IF p \in DOMAIN ip THEN ip ELSE (p :> Nvec0) @@ ip
        slot == 1 - npair(v, p)
    IN  [ip1 EXCEPT ![p] = [@ EXCEPT ![slot] = @ + 1]]

RECURSIVE SortSet(_)
SortSet(S) ==
    IF S = {} THEN <<>>
    ELSE LET m == CHOOSE x \in S : \A y \in S : x <= y
         IN  <<m>> \o SortSet(S \ {m})

unique(ip) == SortSet({k[1] : k \in DOMAIN ip} \cup {k[2] : k \in DOMAIN ip})

NoPairs == [k \in {} |-> Nvec0]

\* the whole of the loop at lines 52-69 with the offspring visited in the order ids
RECURSIVE FoldPairs(_, _, _)
FoldPairs(ip, v, ps) ==
    IF ps = <<>> THEN ip ELSE FoldPairs(AddPair(ip, v, Head(ps)), v, Tail(ps))

OneOffspring(ip, v) ==
    LET im == infomk(v) IN IF Len(im) < 2 THEN ip ELSE FoldPairs(ip, v, PairsOf(im))

RECURSIVE AggregateIn(_, _, _)
AggregateIn(ip, rp, ids) ==
    IF ids = <<>> THEN ip
    ELSE AggregateIn(OneOffspring(ip, rp[Head(ids)]), rp, Tail(ids))

SolverIdle ==
    /\ mk = <<>>
    /\ pairs = NoPairs
    /\ recf = "recrate"
    /\ L = 0
    /\ constraints = <<>>
    /\ order = <<>>
    /\ calls = 0
    /\ outcome = "none"
    /\ phase = <<>>
    /\ spc = "idle"

InitAgg ==
    /\ rawphase \in {test_phase} \cup SmallInputs
    /\ info_pairs = NoPairs
    /\ info_mk = <<>>
    /\ pending = DOMAIN rawphase
    /\ cur = "none"
    /\ mypairs = <<>>
    /\ pc = "loop"
    /\ SolverIdle

(* one iteration of `for k,v in self.rawphase.items()` up to the inner loop *)
NextOffspring ==
    /\ pc = "loop"
    /\ pending # {}
    /\ \E k \in pending :
        LET im == infomk(rawphase[k]) IN
        /\ pending' = pending \ {k}
        /\ IF Len(im) < 2
           THEN /\ cur' = "none"
                /\ mypairs' = <<>>
                /\ pc' = "loop"
           ELSE /\ cur' = k
                /\ mypairs' = PairsOf(im)
                /\ pc' = "pairs"
    /\ UNCHANGED <<rawphase, info_pairs, info_mk, solvars>>

(* one iteration of `for p in mypairs` *)
ProcessPair ==
    /\ pc = "pairs"
    /\ mypairs # <<>>
    /\ info_pairs' = AddPair(info_pairs, rawphase[cur], Head(mypairs))
    /\ mypairs' = Tail(mypairs)
    /\ IF Tail(mypairs) = <<>>
       THEN cur' = "none" /\ pc' = "loop"
       ELSE cur' = cur /\ pc' = "pairs"
    /\ UNCHANGED <<rawphase, info_mk, pending, solvars>>

(* after the loop: info_mk = np.unique(flattened keys) *)
CollectMarkers ==
    /\ pc = "loop"
    /\ pending = {}
    /\ info_mk' = unique(info_pairs)
    /\ pc' = "done"
    /\ UNCHANGED <<rawphase, info_pairs, pending, cur, mypairs, solvars>>

NextAgg == NextOffspring \/ ProcessPair \/ CollectMarkers

SpecAgg == InitAgg /\ [][NextAgg]_vars

(* ---------- PhaseSolver ---------- *)
\* Rates are in units of 1e-6.  PhaseData.recrate ignores dtot and returns
\* 0.5*(1-exp(-0.1/50)) = 0.000999 for every pair.
recrate(i, j) == 999

\* Other rate functions a caller may pass as recmap_f.
shortrange(i, j) == IF j - i <= 2 THEN 400000 ELSE 0

afterfirst(i, j) == IF i > 0 THEN 250000 ELSE IF j - i <= 3 THEN -100000 ELSE 0

RateFns == {"recrate", "shortrange", "afterfirst"}

CallRecf(f, i, j) ==
    CASE f = "recrate" -> recrate(i, j)
      [] f = "shortrange" -> shortrange(i, j)
      [] f = "afterfirst" -> afterfirst(i, j)

\* np.log((1-r)/r) in units of 1e-3, for the rates the rate functions return.
LogOdds(r) ==
    CASE r = 999 -> 6907
      [] r = 250000 -> 1098
      [] r = 400000 -> 405

\* mutant: round to nearest instead of truncating
intRound(x) == IF x >= 0 THEN (x + 500) \div 1000 ELSE -((-x + 500) \div 1000)

\* int(x) of a float held in units of 1e-3: truncation toward zero.
int(x) == IF x >= 0 THEN x \div 1000 ELSE -((-x) \div 1000)

Wkl(Nkl, rkl) == (Nkl[0] - Nkl[1]) * LogOdds(rkl)

Cost4(a, b, c, d) == [n \in 0..3 |-> <<a, b, c, d>>[n + 1]]

\* mutant: the two branches exchanged
costSwapped(W) ==
    LET c == IF W < 0 THEN Cost4(0, -W, -W, 0) ELSE Cost4(W, 0, 0, W)
    IN  [n \in 0..3 |-> int(c[n])]

cost(W) ==
    LET c == IF W < 0 THEN Cost4(-W, 0, 0, -W) ELSE Cost4(0, W, W, 0)
    IN  [n \in 0..3 |-> int(c[n])]

\* nj.PostBinary(hk, hl, cost): cost[2*a+b] is paid when hk = a and hl = b.
PostBinary(k, l, c) == [kind |-> "PostBinary", k |-> k, l |-> l, cost |-> c]

\* self.Variables[0] == 0
FixFirst == [kind |-> "Eq", k |-> 0, l |-> 0, cost |-> Cost4(0, 0, 0, 0)]

Elems(s) == {s[n] : n \in 1..Len(s)}

\* list.index: 0-based position of the first occurrence
index(list, x) ==
    CHOOSE n \in 0..(Len(list) - 1) :
        list[n + 1] = x /\ \A m \in 0..(n - 1) : list[m + 1] # x

\* the loop of add_constraints over the pairs still to visit
RECURSIVE AddFrom(_, _, _, _, _)
AddFrom(todo, cons, mklist, prs, f) ==
    IF todo = <<>> THEN [constraints |-> cons, outcome |-> "ok"]
    ELSE LET p == Head(todo) IN
         IF p[1] \notin Elems(mklist) \/ p[2] \notin Elems(mklist)
         THEN [constraints |-> cons, outcome |-> "ValueError"]
         ELSE LET rkl == CallRecf(f, p[1], p[2]) IN
              IF ~(rkl > 0)
              THEN [constraints |-> cons, outcome |-> "AssertionError"]
              ELSE AddFrom(Tail(todo),
                           Append(cons, PostBinary(index(mklist, p[1]), index(mklist, p[2]),
                                                   cost(Wkl(prs[p], rkl)))),
                           mklist, prs, f)

\* mutant: a failing call restores the list it started with
AddConstraintsRollback(cons, ord, mklist, prs, f) ==
    LET res == AddFrom(ord, cons, mklist, prs, f)
    IN  IF res.outcome = "ok" THEN res ELSE [constraints |-> cons, outcome |-> res.outcome]

\* mutant: every call rebuilds the list from the fixed constraint
AddConstraintsRebuild(cons, ord, mklist, prs, f) ==
    AddFrom(ord, <<cons[1]>>, mklist, prs, f)

\* mutant: a pair whose rate is not positive is skipped instead of asserted on
AddConstraintsSkipBadRate(cons, ord, mklist, prs, f) ==
    AddFrom(SelectSeq(ord, LAMBDA p : \/ p[1] \notin Elems(mklist)
                                     \/ p[2] \notin Elems(mklist)
                                     \/ CallRecf(f, p[1], p[2]) > 0),
            cons, mklist, prs, f)

\* add_constraints: the loop over self.pairs.items() in the dict's order
AddConstraints(cons, ord, mklist, prs, f) == AddFrom(ord, cons, mklist, prs, f)

\* cost of one constraint under an assignment a : 0..L-1 -> {0,1}
ConstraintCost(c, a) ==
    IF c.kind = "PostBinary" THEN c.cost[2 * a[c.k] + a[c.l]] ELSE 0

RECURSIVE TotalCost(_, _)
TotalCost(cons, a) ==
    IF cons = <<>> THEN 0 ELSE ConstraintCost(Head(cons), a) + TotalCost(Tail(cons), a)

Feasible(cons, n) ==
    {a \in [0..(n - 1) -> 0..1] :
        \A m \in 1..Len(cons) : cons[m].kind = "Eq" => a[cons[m].k] = cons[m].l}

\* what Toulbar2 may return: any feasible assignment of minimum total cost
Optimal(cons, n) ==
    {a \in Feasible(cons, n) : \A b \in Feasible(cons, n) : TotalCost(cons, a) <= TotalCost(cons, b)}

(* inputs of PhaseSolver.__init__ *)
PairKeys == {<<0, 3>>, <<3, 4>>, <<4, 6>>, <<0, 4>>}

CountVecs == {v \in [0..1 -> 0..MaxCount] : v[0] + v[1] >= 1}

PairInputs ==
    UNION {[K -> CountVecs] : K \in {S \in SUBSET PairKeys : Cardinality(S) <= MaxPairs}}

\* mk_list: np.unique of the pair keys (what __main__ passes), or the first
\* n markers of the documented scenario, n = 0..4
MkLists(prs) == {unique(prs)} \cup {SubSeq(<<0, 3, 4, 6>>, 1, n) : n \in 0..4}

Orders(K) ==
    {s \in [1..Cardinality(K) -> K] : \A a, b \in 1..Cardinality(K) : s[a] = s[b] => a = b}

AggIdle ==
    /\ rawphase = [k \in {} |-> <<>>]
    /\ info_pairs = NoPairs
    /\ info_mk = <<>>
    /\ pending = {}
    /\ cur = "none"
    /\ mypairs = <<>>
    /\ pc = "idle"

InitSolve ==
    /\ AggIdle
    /\ pairs \in PairInputs
    /\ order \in Orders(DOMAIN pairs)
    /\ mk \in MkLists(pairs)
    /\ recf \in RateFns
    /\ L = 0
    /\ constraints = <<>>
    /\ calls = 0
    /\ outcome = "none"
    /\ phase = <<>>
    /\ spc = "new"

\* mutant: the constraint list starts empty, Variables[0] is never read
ConstructUnanchored ==
    /\ spc = "new"
    /\ L' = Len(mk)
    /\ constraints' = <<>>
    /\ outcome' = "ok"
    /\ spc' = "ready"
    /\ UNCHANGED <<mk, pairs, recf, order, calls, phase, aggvars>>

\* PhaseSolver.__init__: Variables[0] of an empty VarArray raises IndexError
Construct ==
    /\ spc = "new"
    /\ L' = Len(mk)
    /\ IF Len(mk) = 0
       THEN /\ constraints' = <<>>
            /\ outcome' = "IndexError"
            /\ spc' = "failed"
       ELSE /\ constraints' = <<FixFirst>>
            /\ outcome' = "ok"
            /\ spc' = "ready"
    /\ UNCHANGED <<mk, pairs, recf, order, calls, phase, aggvars>>

add_constraints ==
    /\ spc = "ready"
    /\ calls < MaxCalls
    /\ LET res == AddConstraints(constraints, order, mk, pairs, recf) IN
        /\ constraints' = res.constraints
        /\ outcome' = res.outcome
        /\ spc' = IF res.outcome = "ok" THEN "ready" ELSE "failed"
    /\ calls' = calls + 1
    /\ UNCHANGED <<mk, pairs, recf, L, order, phase, aggvars>>

\* solve(): the model is handed to Toulbar2 and the values are read back with
\* xrange (Python 2, the dialect the module is written in)
solve ==
    /\ spc = "ready"
    /\ phase' \in Optimal(constraints, L)
    /\ outcome' = "ok"
    /\ spc' = "solved"
    /\ UNCHANGED <<mk, pairs, recf, L, constraints, order, calls, aggvars>>

NextSolve == Construct \/ add_constraints \/ solve

SpecSolve == InitSolve /\ [][NextSolve]_vars

(* ====================== properties of PhaseData ====================== *)
Nvec(a, b) == [s \in 0..1 |-> IF s = 0 THEN a ELSE b]

Positions == UNION {DOMAIN rawphase[k] : k \in DOMAIN rawphase}

\* offspring in which i and j are both known with no known value strictly between
Supporters(i, j) ==
    {k \in DOMAIN rawphase :
        /\ i \in DOMAIN rawphase[k] /\ j \in DOMAIN rawphase[k]
        /\ rawphase[k][i] # "*" /\ rawphase[k][j] # "*"
        /\ \A m \in (i + 1)..(j - 1) : rawphase[k][m] = "*"}

Concordant(i, j) == {k \in Supporters(i, j) : rawphase[k][i] = rawphase[k][j]}

Discordant(i, j) == {k \in Supporters(i, j) : rawphase[k][i] # rawphase[k][j]}

\* C1: count conservation.  When aggregation has finished, the two counts of
\* every key (i,j) add up to the number of offspring that know both i and j and
\* nothing strictly between them, and every pair with such an offspring is a key
\* while a pair without one is not.
C1_CountConservation ==
    pc = "done" =>
        /\ \A key \in DOMAIN info_pairs :
            /\ Supporters(key[1], key[2]) # {}
            /\ info_pairs[key][0] + info_pairs[key][1]
                 = Cardinality(Supporters(key[1], key[2]))
        /\ \A i, j \in Positions :
            (i < j /\ Supporters(i, j) # {}) => <<i, j>> \in DOMAIN info_pairs

C1_Witness ==
    /\ pc = "done"
    /\ \E key \in DOMAIN info_pairs : \E k \in DOMAIN rawphase :
        /\ info_pairs[key][0] + info_pairs[key][1] >= 1
        /\ rawphase[k][key[1]] # "*" /\ rawphase[k][key[2]] # "*"
        /\ k \notin Supporters(key[1], key[2])

\* C2 as stated: the documented scenario gives the four keys with vectors
\* [N_discordant, N_concordant]: (3,4) -> [2,0], (0,3) -> [1,0], (4,6) -> [1,2],
\* (0,4) -> [0,1].
C2_AsStated ==
    (pc = "done" /\ rawphase = test_phase) =>
        info_pairs = (<<0, 3>> :> Nvec(1, 0) @@ <<3, 4>> :> Nvec(2, 0)
                      @@ <<4, 6>> :> Nvec(1, 2) @@ <<0, 4>> :> Nvec(0, 1))

\* C2 amended: the vector is [N_concordant, N_discordant] (the source's [N+,N-]):
\* a concordant observation increments slot 0, a discordant one slot 1, and the
\* documented scenario gives (3,4) -> [0,2], (0,3) -> [0,1], (4,6) -> [2,1],
\* (0,4) -> [1,0].
C2_SlotOrientation ==
    pc = "done" =>
        /\ \A key \in DOMAIN info_pairs :
            /\ info_pairs[key][0] = Cardinality(Concordant(key[1], key[2]))
            /\ info_pairs[key][1] = Cardinality(Discordant(key[1], key[2]))
        /\ rawphase = test_phase =>
            info_pairs = (<<0, 3>> :> Nvec(0, 1) @@ <<3, 4>> :> Nvec(0, 2)
                          @@ <<4, 6>> :> Nvec(2, 1) @@ <<0, 4>> :> Nvec(1, 0))

C2_Witness ==
    /\ pc = "done"
    /\ rawphase = test_phase
    /\ DOMAIN info_pairs = {<<0, 3>>, <<3, 4>>, <<4, 6>>, <<0, 4>>}

\* C3: pair symmetry.  In every state of the aggregation every key (i,j) of
\* info_pairs has i < j, so no pair is stored under both (i,j) and (j,i).
C3_PairSymmetry ==
    \A key \in DOMAIN info_pairs :
        /\ key[1] < key[2]
        /\ <<key[2], key[1]>> \notin DOMAIN info_pairs

C3_Witness ==
    /\ pc = "pairs"
    /\ pending # {}
    /\ Cardinality(DOMAIN info_pairs) >= 2

NameOrder(rp) == SelectSeq(OffspringNames, LAMBDA n : n \in DOMAIN rp)

RECURSIVE Reverse(_)
Reverse(s) == IF s = <<>> THEN <<>> ELSE Append(Reverse(Tail(s)), Head(s))

\* C4: order independence.  Whatever order the offspring were visited in, the
\* final info_pairs and info_mk are those of visiting them in name order, and
\* those of visiting them in the reverse of it.
C4_OrderIndependence ==
    pc = "done" =>
        /\ info_pairs = AggregateIn(NoPairs, rawphase, NameOrder(rawphase))
        /\ info_pairs = AggregateIn(NoPairs, rawphase, Reverse(NameOrder(rawphase)))
        /\ info_mk = unique(AggregateIn(NoPairs, rawphase, NameOrder(rawphase)))

C4_Witness ==
    /\ pc = "done"
    /\ \E key \in DOMAIN info_pairs : info_pairs[key][0] >= 1 /\ info_pairs[key][1] >= 1
    /\ Len(info_mk) >= 2

(* ====================== properties of PhaseSolver ====================== *)
Matrices == {n \in 1..Len(constraints) : constraints[n].kind = "PostBinary"}

\* the pair of markers a pairwise constraint is about
PairOf(c) == <<mk[c.k + 1], mk[c.l + 1]>>

RateOf(p) == CallRecf(recf, p[1], p[2])

ValidRate(r) == r > 0 /\ r < 500000

\* (N_discordant - N_concordant) * log((1-r)/r) in units of 1e-3; the
\* discordant count is Nkl[1] and the concordant count Nkl[0]
RealWeight(p) == (pairs[p][1] - pairs[p][0]) * LogOdds(RateOf(p))

Abs(x) == IF x < 0 THEN -x ELSE x

Trunc(x) == IF x >= 0 THEN x \div 1000 ELSE -((-x) \div 1000)

Nearest(x) == IF x >= 0 THEN (x + 500) \div 1000 ELSE -((-x + 500) \div 1000)

\* C5: sign convention.  With W the integer weight of a pair with a valid rate,
\* its matrix is [0,-W,-W,0] when W < 0 and [W,0,0,W] when W >= 0; every entry is
\* >= 0 and the agreeing cells or the disagreeing cells are both 0.
C5_SignConvention ==
    \A n \in Matrices :
        LET c == constraints[n]
            W == Trunc(RealWeight(PairOf(c)))
        IN  ValidRate(RateOf(PairOf(c))) =>
                /\ IF W < 0 THEN c.cost = Cost4(0, -W, -W, 0)
                            ELSE c.cost = Cost4(W, 0, 0, W)
                /\ \A m \in 0..3 : c.cost[m] >= 0
                /\ \/ c.cost[0] = 0 /\ c.cost[3] = 0
                   \/ c.cost[1] = 0 /\ c.cost[2] = 0

C5_Witness ==
    /\ \E n \in Matrices : constraints[n].cost[0] > 0 /\ constraints[n].cost[3] > 0
    /\ \E n \in Matrices : constraints[n].cost[1] > 0 /\ constraints[n].cost[2] > 0

PenalisedCost(c) == IF c.cost[0] >= c.cost[1] THEN c.cost[0] ELSE c.cost[1]

\* C6 as stated: the cost of the penalised cells is |weight| rounded to the
\* nearest integer.
C6_AsStated ==
    \A n \in Matrices :
        ValidRate(RateOf(PairOf(constraints[n]))) =>
            PenalisedCost(constraints[n]) = Nearest(Abs(RealWeight(PairOf(constraints[n]))))

\* C6 amended: the cost of the penalised cells is |weight| truncated toward
\* zero (int()), for every count difference and every valid rate.
C6_Truncated ==
    \A n \in Matrices :
        LET c == constraints[n] IN
        ValidRate(RateOf(PairOf(c))) =>
            /\ PenalisedCost(c) = Abs(RealWeight(PairOf(c))) \div 1000
            /\ c.cost[0] = c.cost[3] /\ c.cost[1] = c.cost[2]

C6_Witness ==
    \E n \in Matrices :
        /\ PenalisedCost(constraints[n]) > 0
        /\ PenalisedCost(constraints[n]) # Nearest(Abs(RealWeight(PairOf(constraints[n]))))

Covered(p) == p[1] \in Elems(mk) /\ p[2] \in Elems(mk)

\* C7: invalid rate.  No matrix is ever emitted for a pair whose rate is <= 0;
\* a call that succeeds has met no such rate; and when every pair's markers are
\* in the variable ordering and some pair's rate is <= 0 the call has failed on
\* the assertion.
C7_InvalidRateRejected ==
    /\ \A n \in Matrices : RateOf(PairOf(constraints[n])) > 0
    /\ (calls >= 1 /\ spc \in {"ready", "solved"}) =>
            \A p \in DOMAIN pairs : RateOf(p) > 0
    /\ (calls >= 1 /\ (\A p \in DOMAIN pairs : Covered(p))
                   /\ (\E p \in DOMAIN pairs : RateOf(p) <= 0)) =>
            (spc = "failed" /\ outcome = "AssertionError")

C7_Witness ==
    /\ spc = "failed"
    /\ outcome = "AssertionError"
    /\ \E p \in DOMAIN pairs : RateOf(p) = 0
    /\ \E p \in DOMAIN pairs : RateOf(p) < 0

\* C8 as stated: with fewer than 2 markers the run is rejected: no variables,
\* constraints or assignment are produced.
C8_AsStated ==
    (Len(mk) < 2 /\ spc # "new") =>
        (spc = "failed" /\ constraints = <<>> /\ phase = <<>>)

\* C8 amended: with an empty marker list construction fails (IndexError on
\* Variables[0]) and no constraint or assignment is produced; a list of one
\* marker is accepted, giving one variable and the fixed constraint.
C8_EmptyRejected ==
    /\ (Len(mk) = 0 /\ spc # "new") =>
            /\ spc = "failed" /\ outcome = "IndexError"
            /\ constraints = <<>> /\ phase = <<>> /\ calls = 0
    /\ (Len(mk) = 1 /\ spc # "new") =>
            /\ L = 1
            /\ constraints # <<>> /\ constraints[1] = FixFirst

C8_Witness ==
    /\ Len(mk) = 0
    /\ spc = "failed"
    /\ DOMAIN pairs = {}

\* number of leading pairs of the iteration order the loop gets through
RECURSIVE GoodPrefix(_)
GoodPrefix(todo) ==
    IF todo = <<>> THEN 0
    ELSE IF Covered(Head(todo)) /\ RateOf(Head(todo)) > 0
         THEN 1 + GoodPrefix(Tail(todo))
         ELSE 0

\* C9 as stated: a failing add_constraints call leaves the constraint list as
\* it was before the call.
C9_AsStated ==
    [][(spc = "ready" /\ spc' = "failed") => constraints' = constraints]_vars

\* C9 amended: a failing add_constraints call keeps the matrices of the pairs
\* visited before the failing one: the list is the old list followed by one
\* matrix for each of them, in iteration order.
C9_PrefixKept ==
    [][(spc = "ready" /\ spc' = "failed") =>
        /\ Len(constraints') = Len(constraints) + GoodPrefix(order)
        /\ SubSeq(constraints', 1, Len(constraints)) = constraints
        /\ \A n \in 1..GoodPrefix(order) :
            /\ constraints'[Len(constraints) + n].kind = "PostBinary"
            /\ mk[constraints'[Len(constraints) + n].k + 1] = order[n][1]
            /\ mk[constraints'[Len(constraints) + n].l + 1] = order[n][2]]_vars

C9_Witness ==
    /\ spc = "failed"
    /\ outcome \in {"AssertionError", "ValueError"}
    /\ Len(constraints) >= 2

Successful == spc \in {"ready", "solved"}

\* C10 as stated: after one or more calls the list is the fixed constraint plus
\* exactly one matrix per pair entry.
C10_AsStated ==
    (Successful /\ calls >= 1) =>
        /\ constraints[1] = FixFirst
        /\ Len(constraints) = 1 + Cardinality(DOMAIN pairs)

\* C10 amended: after n successful calls the list is the fixed constraint
\* followed by n matrices per pair entry (each call appends one per pair), and
\* the total cost of every assignment is n times that of a single call.
C10_Accumulates ==
    Successful =>
        /\ constraints[1] = FixFirst
        /\ \A n \in 2..Len(constraints) : constraints[n].kind = "PostBinary"
        /\ Len(constraints) = 1 + calls * Cardinality(DOMAIN pairs)
        /\ \A p \in DOMAIN pairs :
            Cardinality({n \in Matrices : PairOf(constraints[n]) = p}) = calls
        /\ LET once == AddFrom(order, <<FixFirst>>, mk, pairs, recf).constraints
           IN  \A a \in [0..(L - 1) -> 0..1] :
                   TotalCost(constraints, a) = calls * TotalCost(once, a)

C10_Witness ==
    /\ spc = "ready"
    /\ calls >= 2
    /\ \E n \in Matrices : PenalisedCost(constraints[n]) > 0

====
